---- MODULE Spec2Model ----
(***************************************************************************)
(* Model of the data-partitioning and training-orchestration core of       *)
(* cinc2021:                                                               *)
(*   - train() and evaluate() of official_phase_legacy/trainer.py          *)
(*   - CINC2021._train_test_split of dataset.py                            *)
(*   - ensure_siglen of torch_ecg_bak/torch_ecg/utils/misc.py              *)
(*   - run_model of team_code.py                                           *)
(*   - init_logger of utils/misc.py and the handler clean-up at the end    *)
(*     of train() and in TxtLogger.close                                   *)
(* The specifications share the module: SpecTrain (train() called with or  *)
(* without a logger, with interrupts), SpecMain (train() started by the    *)
(* __main__ block, which catches the interrupt), SpecSetup (train() with   *)
(* any optimizer, scheduler and loss name), SpecEval (one evaluate()       *)
(* call), SpecSplit (split calls over a file store), SpecSplitCrash (the   *)
(* same with writes that fail), SpecSplitFair (one recompute under fair    *)
(* shuffling), SpecSiglen (one ensure_siglen call), SpecRun (one run_model *)
(* call) and SpecLogger (a logger initialised and closed repeatedly).      *)
(* Each keeps the variables of the others fixed.                           *)
(***************************************************************************)
EXTENDS Integers, Sequences, FiniteSets

\* ------------------------------------------------------------------------
\* Bounds of the model
\* ------------------------------------------------------------------------
MaxEpochs == 4

MaxKeep == 3

MaxPatience == 2

MaxDelta == 1

MaxMetric == 2

MaxBatches == 1

MaxValBatches == 3

MaxRecs == 3

NTranches == 2

MaxSigLen == 3

MaxSample == 1

MaxHandlers == 3

MaxInits == 3

\* ------------------------------------------------------------------------
\* train(): configuration, locals, files
\* ------------------------------------------------------------------------
VARIABLES
    n_epochs,               \* config.n_epochs
    keep_checkpoint_max,    \* config.keep_checkpoint_max
    early_stopping,         \* config.early_stopping: [on, patience, min_delta]
    logger,                 \* TRUE iff a logger was passed to train()
    n_batches,              \* len(train_loader)
    train_optimizer,        \* config.train_optimizer
    lr_scheduler,           \* config.lr_scheduler, "" is None
    loss,                   \* config.loss
    call_site,              \* "main" (the __main__ block, which passes its logger) or "other"
    interrupted_file,       \* INTERRUPTED.pth.tar in config.checkpoints: <<>> or <<[...]>>
    checkpoints_exists,     \* the directory config.checkpoints exists
    tpc,                    \* position of train()
    epoch,                  \* loop variable of `for epoch in range(n_epochs)`, -1 before the loop
    global_step,
    params,                 \* version of the live model parameters (one per optimizer.step())
    eval_res,               \* eval_res[6], the challenge metric of the current epoch
    best_challenge_metric,
    best_state_dict,        \* "empty" (OrderedDict()) or "live" (the tensors of _model.state_dict())
    best_epoch,
    pseudo_best_epoch,
    saved_models,           \* deque of checkpoint paths, each path identified by its epoch tag
    ckpt_dir,               \* files of config.checkpoints: set of [epoch, model_state_dict]
    best_file,              \* the file of config.model_dir: <<>> or <<[model_state_dict, epoch]>>
    returned,               \* value of the dict returned by train(), as read on return
    epochs_evaluated,       \* history: number of epochs trained and evaluated
    finite_metric_seen,     \* history: some epoch's challenge metric exceeded -infinity
    ckpt_log,               \* history: epoch tags of the checkpoints written, in order
    best_saves,             \* history: number of writes of the best-model file
    remove_failed,          \* history: some os.remove of the rotation failed
    interrupt_seen,         \* history: a KeyboardInterrupt was raised during train()
    interrupt_saves,        \* history: number of writes of INTERRUPTED.pth.tar
    phases,                 \* history: the phases the current epoch has gone through
    max_seen,               \* history: the largest challenge metric of the epochs so far
    first_max_epoch,        \* history: the first epoch whose metric was max_seen
    params_at               \* history: parameters of the model at the end of each evaluated epoch

tvars == <<n_epochs, keep_checkpoint_max, early_stopping, logger, n_batches,
           train_optimizer, lr_scheduler, loss, call_site, interrupted_file,
           checkpoints_exists, tpc, epoch,
           global_step, params, eval_res, best_challenge_metric, best_state_dict,
           best_epoch, pseudo_best_epoch, saved_models, ckpt_dir, best_file, returned,
           epochs_evaluated, finite_metric_seen, ckpt_log, best_saves, remove_failed,
           interrupt_seen, interrupt_saves, phases, max_seen, first_max_epoch, params_at>>

\* ------------------------------------------------------------------------
\* evaluate(): the dataset of the loader, the model's mode, locals
\* ------------------------------------------------------------------------
VARIABLES
    use_augmentation,       \* data_loader.dataset.use_augmentation
    model_training,         \* model.training (train mode / eval mode)
    n_val_batches,          \* len(data_loader)
    epc,                    \* position of evaluate()
    prev_aug_status,
    batch_idx,              \* batches consumed from data_loader
    all_labels,             \* number of batches appended to all_labels
    all_scalar_preds,       \* number of batches appended to all_scalar_preds / all_bin_preds
    aug_before              \* history: the flag when evaluate() was called

evars == <<use_augmentation, model_training, n_val_batches, epc, prev_aug_status,
           batch_idx, all_labels, all_scalar_preds, aug_before>>

\* ------------------------------------------------------------------------
\* CINC2021._train_test_split: the dataset object, the reader, the files
\* ------------------------------------------------------------------------
VARIABLES
    train_ratio,            \* config.train_ratio, in percent
    rec_kind,               \* the reader: what each record of all_records is
    files,                  \* the four cache files: <<>> (absent) or <<document>>
    spc,                    \* position of _train_test_split
    force_recompute,
    read_loc,               \* where train_file / test_file point after the existence test
    tranche_records,
    train_set,
    test_set,
    t_idx,                  \* index in _TRANCHES of the tranche being split
    dataset,                \* the dataset object built by the last completed call, <<>> or
                            \* <<[training, tranches, records]>>: training is "train" (True),
                            \* "test" (False) or "all"; tranches is "" (None) or a key of
                            \* tranche_classes; records is the list the call returned
    loaded_from,            \* history: the files the running / last call has read, in order
    cache_hit,              \* history: the running / last call found a complete pair, unforced
    prev_hit_dataset        \* history: the dataset of the preceding call if it and this call
                            \* are cache hits, else <<>>

svars == <<train_ratio, rec_kind, files, spc, force_recompute, read_loc, tranche_records,
           train_set, test_set, t_idx, dataset, loaded_from, cache_hit, prev_hit_dataset>>

\* ------------------------------------------------------------------------
\* ensure_siglen: the arguments and the result
\* ------------------------------------------------------------------------
VARIABLES
    values,                 \* the signal, a matrix in the layout fmt names
    siglen,                 \* the length the signal is supposed to have
    fmt,
    out_values,             \* the returned matrix, <<>> before the return
    wpc                     \* position of ensure_siglen

wvars == <<values, siglen, fmt, out_values, wpc>>

\* ------------------------------------------------------------------------
\* run_model: the configuration, the locals, the result
\* ------------------------------------------------------------------------
VARIABLES
    special_classes,        \* len(_TrainCfg.special_classes) > 0
    rpc,                    \* position of run_model
    partial_conclusion,     \* <<>> or <<[type, fields]>>: type is "EasyDict" or "dict"
    final_conclusions,      \* the list of conclusion vectors
    final_scores,           \* the list of score vectors
    run_result,             \* <<>> or <<[labels, probabilities]>>
    detector_raised         \* history: special_detectors raised

rvars == <<special_classes, rpc, partial_conclusion, final_conclusions, final_scores,
           run_result, detector_raised>>

\* ------------------------------------------------------------------------
\* the logger "CinC2021" of the logging module
\* ------------------------------------------------------------------------
VARIABLES
    handlers,               \* logger.handlers, a list of handler ids
    closed,                 \* the handlers h.close() was called on
    lpc,                    \* "ready", "closing" (in the for loop) or "shut"
    it_idx,                 \* the index the list iterator of the for loop is at
    closer,                 \* who runs the loop: "train" or "TxtLogger.close"
    inits                   \* number of init_logger calls

lvars == <<handlers, closed, lpc, it_idx, closer, inits>>

vars == <<tvars, evars, svars, wvars, rvars, lvars>>

NegInf == -1

NoParams == -1

Metrics == 0..MaxMetric

\* the numbers of handlers of a logger passed to train() by another caller
\* than the __main__ block
TrainHandlerCounts == {2}

\* config.early_stopping: absent (on is FALSE, the other fields are unused)
\* or a patience and a min_delta
EarlyStoppingCfgs ==
    {[on |-> FALSE, patience |-> 0, min_delta |-> 0]}
    \cup [on : {TRUE}, patience : 0..MaxPatience, min_delta : 0..MaxDelta]

\* the comparison that makes an epoch the new best
IsImprovementOverInitial(m, best) == m > NegInf

IsImprovementOrTie(m, best) == m >= best

IsImprovement(m, best) == m > best

\* the comparison that makes an epoch "near best"
IsNearBestStrict(m, best, min_delta) == m > best - min_delta

IsNearBest(m, best, min_delta) == m >= best - min_delta

\* the patience test, with the loop variable and the marker as the code has them
PatienceExceeded(ep, pbe, patience) == ep - pbe >= patience

\* the rotation test
NeedsRotationAnyLimit(queue, keep) == Len(queue) > keep

NeedsRotation(queue, keep) == Len(queue) > keep /\ keep > 0

\* the test guarding the final save
HasBestAlways(best) == TRUE

HasBest(best) == best > NegInf

\* str.lower() on the names the model uses
Lower(name) ==
    CASE name = "Adam" -> "adam"
      [] name = "Plateau" -> "plateau"
      [] OTHER -> name

\* the optimizer branch: a name outside it raises NotImplementedError
OptimizerSupportedOrDefault(name) == TRUE

OptimizerSupported(name) == Lower(name) \in {"adam", "adamw", "adamw_amsgrad", "sgd"}

\* the scheduler branch: None, or one of four names
SchedulerSupported(name) ==
    \/ name = ""
    \/ Lower(name) \in {"plateau", "step", "one_cycle", "onecycle"}

\* the loss branch: the names are compared as they are
LossSupported(name) == name \in {"BCEWithLogitsLoss", "BCEWithLogitsWithClassWeightLoss"}

\* config values tried for the three names
OptimizerNames == {"adam", "Adam", "adamw", "adamw_amsgrad", "sgd", "rmsprop"}

SchedulerNames == {"", "plateau", "Plateau", "step", "one_cycle", "onecycle", "cosine"}

LossNames == {"BCEWithLogitsLoss", "BCEWithLogitsWithClassWeightLoss", "bcewithlogitsloss"}

\* the keys of the dict the __main__ block saves on KeyboardInterrupt
InterruptedKeys == {"model_state_dict", "model_config", "train_config"}

\* how os.remove can end inside the try of the rotation, whoever called
\* train(): the file removed, an OSError, or a KeyboardInterrupt raised in the
\* try with the file removed or not
RemoveOutcomes == {"removed", "oserror", "interrupt_removed", "interrupt_kept"}

\* list.remove: the list without the first occurrence of x
RemoveFirst(seq, x) ==
    IF \E i \in DOMAIN seq : seq[i] = x
       THEN LET i == CHOOSE k \in DOMAIN seq :
                        seq[k] = x /\ \A m \in 1..k - 1 : seq[m] # x
            IN  SubSeq(seq, 1, i - 1) \o SubSeq(seq, i + 1, Len(seq))
       ELSE seq

\* the elements of a list
SeqRange(seq) == {seq[i] : i \in DOMAIN seq}

RECURSIVE CloseLoop(_, _, _)
\* `for h in logger.handlers: h.close(); logger.removeHandler(h)` from
\* iterator index i to its end: the iterator yields the element at its index
\* of the list as it is by then
CloseLoop(hs, cl, i) ==
    IF i >= Len(hs) THEN [handlers |-> hs, closed |-> cl, it_idx |-> i]
    ELSE CloseLoop(RemoveFirst(hs, hs[i + 1]), cl \cup {hs[i + 1]}, i + 1)

RECURSIVE CloseLoopPrefixes(_, _, _)
\* the points that loop passes through: between two passes, and inside a
\* pass after h.close()
CloseLoopPrefixes(hs, cl, i) ==
    {[handlers |-> hs, closed |-> cl, it_idx |-> i]}
    \cup (IF i >= Len(hs) THEN {}
          ELSE {[handlers |-> hs, closed |-> cl \cup {hs[i + 1]}, it_idx |-> i]}
               \cup CloseLoopPrefixes(RemoveFirst(hs, hs[i + 1]), cl \cup {hs[i + 1]}, i + 1))

\* the points logging.shutdown() passes through after that loop: it closes
\* the handlers still attached, the one created last first
ShutdownPrefixes(hs, cl) ==
    {cl \cup {h \in SeqRange(hs) : h > m} : m \in SeqRange(hs) \cup {0}}

\* what a reader of a state dict sees: the tensors share storage with the model
StateDictValue(sd, live) == IF sd = "live" THEN live ELSE NoParams

\* evaluate() not called
EvalIdle ==
    /\ use_augmentation = FALSE
    /\ model_training = TRUE
    /\ n_val_batches = 0
    /\ epc = "idle"
    /\ prev_aug_status = FALSE
    /\ batch_idx = 0
    /\ all_labels = 0
    /\ all_scalar_preds = 0
    /\ aug_before = FALSE

\* no dataset constructed
SplitIdle ==
    /\ train_ratio = 0
    /\ rec_kind = <<>>
    /\ files = <<>>
    /\ spc = "idle"
    /\ force_recompute = FALSE
    /\ read_loc = "db"
    /\ tranche_records = <<>>
    /\ train_set = <<>>
    /\ test_set = <<>>
    /\ t_idx = 0
    /\ dataset = <<>>
    /\ loaded_from = <<>>
    /\ cache_hit = FALSE
    /\ prev_hit_dataset = <<>>

\* ensure_siglen not called
SiglenIdle ==
    /\ values = <<>>
    /\ siglen = 0
    /\ fmt = "lead_first"
    /\ out_values = <<>>
    /\ wpc = "idle"

\* no logger in use
LoggerIdle ==
    /\ handlers = <<>>
    /\ closed = {}
    /\ lpc = "idle"
    /\ it_idx = 0
    /\ closer = "train"
    /\ inits = 0

\* run_model not called
RunIdle ==
    /\ special_classes = FALSE
    /\ rpc = "idle"
    /\ partial_conclusion = <<>>
    /\ final_conclusions = <<>>
    /\ final_scores = <<>>
    /\ run_result = <<>>
    /\ detector_raised = FALSE

\* the logger passed to train(): that of init_logger with its two handlers
\* (the __main__ block), any logger, or None
LoggerAtEntry ==
    /\ IF call_site = "main"
          THEN handlers = <<1, 2>> /\ inits = 1
          ELSE /\ inits = 0
               /\ IF logger
                     THEN \E n \in TrainHandlerCounts : handlers = [i \in 1..n |-> i]
                     ELSE handlers = <<>>
    /\ closed = {}
    /\ lpc = IF logger THEN "ready" ELSE "idle"
    /\ it_idx = 0
    /\ closer = "train"

\* train() not called
TrainIdle ==
    /\ n_epochs = 0
    /\ keep_checkpoint_max = 0
    /\ early_stopping = [on |-> FALSE, patience |-> 0, min_delta |-> 0]
    /\ logger = FALSE
    /\ n_batches = 0
    /\ train_optimizer = "adam"
    /\ lr_scheduler = ""
    /\ loss = "BCEWithLogitsLoss"
    /\ call_site = "other"
    /\ interrupted_file = <<>>
    /\ checkpoints_exists = FALSE
    /\ tpc = "idle"
    /\ epoch = -1
    /\ global_step = 0
    /\ params = 0
    /\ eval_res = NegInf
    /\ best_challenge_metric = NegInf
    /\ best_state_dict = "empty"
    /\ best_epoch = -1
    /\ pseudo_best_epoch = -1
    /\ saved_models = <<>>
    /\ ckpt_dir = {}
    /\ best_file = <<>>
    /\ returned = NoParams
    /\ epochs_evaluated = 0
    /\ finite_metric_seen = FALSE
    /\ ckpt_log = <<>>
    /\ best_saves = 0
    /\ remove_failed = FALSE
    /\ interrupt_seen = FALSE
    /\ interrupt_saves = 0
    /\ phases = <<>>
    /\ max_seen = NegInf
    /\ first_max_epoch = -1
    /\ params_at = <<>>

\* train() is entered: nothing has run, no file is written; the directory of
\* the checkpoints may be there already
TrainStart ==
    /\ interrupted_file = <<>>
    /\ checkpoints_exists \in BOOLEAN
    /\ tpc = "setup"
    /\ epoch = -1
    /\ global_step = 0
    /\ params = 0
    /\ eval_res = NegInf
    /\ best_challenge_metric = NegInf
    /\ best_state_dict = "empty"
    /\ best_epoch = -1
    /\ pseudo_best_epoch = -1
    /\ saved_models = <<>>
    /\ ckpt_dir = {}
    /\ best_file = <<>>
    /\ returned = NoParams
    /\ epochs_evaluated = 0
    /\ finite_metric_seen = FALSE
    /\ ckpt_log = <<>>
    /\ best_saves = 0
    /\ remove_failed = FALSE
    /\ interrupt_seen = FALSE
    /\ interrupt_saves = 0
    /\ phases = <<>>
    /\ max_seen = NegInf
    /\ first_max_epoch = -1
    /\ params_at = <<>>

\* train() called as a function, with supported names
InitTrain ==
    /\ EvalIdle
    /\ SplitIdle
    /\ SiglenIdle
    /\ RunIdle
    /\ n_epochs \in 0..MaxEpochs
    /\ keep_checkpoint_max \in -1..MaxKeep
    /\ early_stopping \in EarlyStoppingCfgs
    /\ logger \in BOOLEAN
    /\ n_batches \in 0..MaxBatches
    /\ train_optimizer = "adam"
    /\ lr_scheduler = ""
    /\ loss = "BCEWithLogitsLoss"
    /\ call_site = "other"
    /\ TrainStart
    /\ LoggerAtEntry

\* train() called by the __main__ block, at a terminal: interrupts can arrive
InitMain ==
    /\ EvalIdle
    /\ SplitIdle
    /\ SiglenIdle
    /\ RunIdle
    /\ n_epochs \in 0..MaxEpochs
    /\ keep_checkpoint_max \in -1..MaxKeep
    /\ early_stopping \in EarlyStoppingCfgs
    /\ logger = TRUE
    /\ n_batches \in 0..MaxBatches
    /\ train_optimizer = "adam"
    /\ lr_scheduler \in {"", "plateau"}
    /\ loss = "BCEWithLogitsLoss"
    /\ call_site = "main"
    /\ TrainStart
    /\ LoggerAtEntry

\* train() called with any of the names, for at most one epoch
InitSetup ==
    /\ EvalIdle
    /\ SplitIdle
    /\ SiglenIdle
    /\ RunIdle
    /\ n_epochs \in 0..1
    /\ keep_checkpoint_max = 1
    /\ early_stopping = [on |-> FALSE, patience |-> 0, min_delta |-> 0]
    /\ logger \in BOOLEAN
    /\ n_batches \in 0..MaxBatches
    /\ train_optimizer \in OptimizerNames
    /\ lr_scheduler \in SchedulerNames
    /\ loss \in LossNames
    /\ call_site \in {"main", "other"}
    /\ (call_site = "main" => logger)
    \* OneCycleLR(epochs=n_epochs, steps_per_epoch=len(train_loader)) is built
    \* for at least one epoch of at least one batch
    /\ (lr_scheduler \in {"one_cycle", "onecycle"} => n_epochs >= 1 /\ n_batches >= 1)
    /\ TrainStart
    /\ LoggerAtEntry

cfgvars == <<n_epochs, keep_checkpoint_max, early_stopping, logger, n_batches,
            train_optimizer, lr_scheduler, loss, call_site>>

mainvars == <<interrupted_file, interrupt_saves>>

tframe == <<cfgvars, mainvars, evars, svars, wvars, rvars>>

tkeep == <<tframe, lvars, checkpoints_exists>>

bestvars == <<best_challenge_metric, best_state_dict, best_epoch, pseudo_best_epoch>>

seenvars == <<max_seen, first_max_epoch>>

histvars == <<epochs_evaluated, finite_metric_seen, ckpt_log, best_saves, remove_failed,
             interrupt_seen, seenvars, params_at>>

\* the optimizer, the scheduler and the loss are chosen by name, or
\* NotImplementedError is raised; then the directories are made and the
\* monitors and the checkpoint queue are set up before the loop
Setup ==
    /\ tpc = "setup"
    /\ IF /\ OptimizerSupported(train_optimizer)
          /\ SchedulerSupported(lr_scheduler)
          /\ LossSupported(loss)
          THEN /\ best_state_dict' = "empty"
               /\ best_challenge_metric' = NegInf
               /\ best_epoch' = -1
               /\ pseudo_best_epoch' = -1
               /\ saved_models' = <<>>
               /\ global_step' = 0
               /\ checkpoints_exists' = TRUE
               /\ tpc' = "loop_head"
          ELSE /\ tpc' = "not_implemented"
               /\ UNCHANGED <<best_state_dict, best_challenge_metric, best_epoch,
                              pseudo_best_epoch, saved_models, global_step,
                              checkpoints_exists>>
    /\ UNCHANGED <<tframe, lvars, epoch, params, eval_res, ckpt_dir, best_file, returned, histvars,
                   phases>>

\* for epoch in range(n_epochs)
LoopHead ==
    /\ tpc = "loop_head"
    /\ IF epoch + 1 < n_epochs
          THEN /\ epoch' = epoch + 1
               /\ phases' = <<>>
               /\ tpc' = "train_steps"
          ELSE /\ epoch' = epoch
               /\ UNCHANGED phases
               /\ tpc' = "final_save"
    /\ UNCHANGED <<tkeep, global_step, params, eval_res, best_challenge_metric,
                   best_state_dict, best_epoch, pseudo_best_epoch, saved_models,
                   ckpt_dir, best_file, returned, histvars>>

\* one pass over train_loader: every batch is one optimizer.step()
TrainSteps ==
    /\ tpc = "train_steps"
    /\ global_step' = global_step + n_batches
    /\ params' = params + n_batches
    /\ phases' = Append(phases, "train")
    /\ tpc' = "evaluate"
    /\ UNCHANGED <<tkeep, epoch, eval_res, best_challenge_metric, best_state_dict,
                   best_epoch, pseudo_best_epoch, saved_models, ckpt_dir, best_file,
                   returned, histvars>>

\* eval_res = evaluate(model, val_loader, ...), then the step of the
\* scheduler if there is one
Evaluate ==
    /\ tpc = "evaluate"
    /\ \E m \in Metrics :
          /\ eval_res' = m
          /\ finite_metric_seen' = (finite_metric_seen \/ m > NegInf)
          /\ max_seen' = IF m > max_seen THEN m ELSE max_seen
          /\ first_max_epoch' = IF m > max_seen THEN epoch + 1 ELSE first_max_epoch
    /\ phases' = phases \o <<"evaluate">>
                    \o (IF lr_scheduler = "" THEN <<>> ELSE <<"scheduler">>)
    /\ epochs_evaluated' = epochs_evaluated + 1
    /\ params_at' = Append(params_at, params)
    /\ tpc' = "select"
    /\ UNCHANGED <<tkeep, epoch, global_step, params, best_challenge_metric,
                   best_state_dict, best_epoch, pseudo_best_epoch, saved_models,
                   ckpt_dir, best_file, returned, ckpt_log, best_saves, remove_failed,
                   interrupt_seen>>

\* best-model tracking and early stopping
Select ==
    /\ tpc = "select"
    /\ phases' = IF ~IsImprovement(eval_res, best_challenge_metric) /\ early_stopping.on
                    THEN Append(phases, "early_stop") ELSE phases
    /\ IF IsImprovement(eval_res, best_challenge_metric)
          THEN /\ best_challenge_metric' = eval_res
               /\ best_state_dict' = "live"
               /\ best_epoch' = epoch + 1
               /\ pseudo_best_epoch' = epoch + 1
               /\ tpc' = "checkpoint"
          ELSE /\ UNCHANGED <<best_challenge_metric, best_state_dict, best_epoch>>
               /\ IF early_stopping.on
                     THEN IF IsNearBest(eval_res, best_challenge_metric, early_stopping.min_delta)
                             THEN /\ pseudo_best_epoch' = epoch + 1
                                  /\ tpc' = "checkpoint"
                             ELSE /\ UNCHANGED pseudo_best_epoch
                                  /\ IF PatienceExceeded(epoch, pseudo_best_epoch,
                                                         early_stopping.patience)
                                        THEN tpc' = "final_save"
                                        ELSE tpc' = "checkpoint"
                     ELSE /\ UNCHANGED pseudo_best_epoch
                          /\ tpc' = "checkpoint"
    /\ UNCHANGED <<tkeep, epoch, global_step, params, eval_res, saved_models,
                   ckpt_dir, best_file, returned, histvars>>

\* the epoch checkpoint and the rotation of the queue; whatever is raised in
\* the try around os.remove is caught by the bare except, whose body calls
\* logger.info
Checkpoint ==
    /\ tpc = "checkpoint"
    /\ ckpt_log' = Append(ckpt_log, epoch + 1)
    /\ phases' = Append(phases, "checkpoint")
    /\ LET queue == Append(saved_models, epoch + 1)
           disk == ckpt_dir \cup {[epoch |-> epoch + 1, model_state_dict |-> params]}
       IN  IF NeedsRotation(queue, keep_checkpoint_max)
              THEN /\ saved_models' = Tail(queue)
                   /\ \E outcome \in RemoveOutcomes :
                         /\ ckpt_dir' = IF outcome \in {"removed", "interrupt_removed"}
                                           THEN {f \in disk : f.epoch # Head(queue)}
                                           ELSE disk
                         /\ remove_failed' =
                               (remove_failed \/ outcome \in {"oserror", "interrupt_kept"})
                         /\ interrupt_seen' =
                               (interrupt_seen
                                  \/ outcome \in {"interrupt_removed", "interrupt_kept"})
                         /\ tpc' = IF outcome = "removed" \/ logger
                                      THEN "loop_head" ELSE "crashed"
              ELSE /\ saved_models' = queue
                   /\ ckpt_dir' = disk
                   /\ tpc' = "loop_head"
                   /\ UNCHANGED <<remove_failed, interrupt_seen>>
    /\ UNCHANGED <<tkeep, epoch, global_step, params, eval_res, best_challenge_metric,
                   best_state_dict, best_epoch, pseudo_best_epoch, best_file, returned,
                   epochs_evaluated, finite_metric_seen, best_saves, seenvars, params_at>>

\* after the loop: the best model is saved
FinalSave ==
    /\ tpc = "final_save"
    /\ IF HasBest(best_challenge_metric)
          THEN /\ best_file' = <<[model_state_dict |-> StateDictValue(best_state_dict, params),
                                  epoch |-> best_epoch]>>
               /\ best_saves' = best_saves + 1
          ELSE UNCHANGED <<best_file, best_saves>>
    /\ tpc' = "cleanup"
    /\ UNCHANGED <<tkeep, epoch, global_step, params, eval_res, best_challenge_metric,
                   best_state_dict, best_epoch, pseudo_best_epoch, saved_models, ckpt_dir,
                   returned, epochs_evaluated, finite_metric_seen, ckpt_log, remove_failed,
                   interrupt_seen, phases, seenvars, params_at>>

\* writer.close(); the handlers of the logger, if one was passed, are closed
\* and removed in a loop over logger.handlers; logging.shutdown() closes the
\* handlers that are left; the best state dict is returned
Cleanup ==
    /\ tpc = "cleanup"
    /\ IF logger
          THEN LET end == CloseLoop(handlers, closed, 0)
               IN  /\ handlers' = end.handlers
                   /\ closed' = end.closed \cup SeqRange(end.handlers)
                   /\ it_idx' = end.it_idx
                   /\ lpc' = "shut"
                   /\ closer' = "train"
                   /\ UNCHANGED inits
          ELSE UNCHANGED lvars
    /\ returned' = StateDictValue(best_state_dict, params)
    /\ tpc' = "done"
    /\ UNCHANGED <<tframe, checkpoints_exists, epoch, global_step, params, eval_res,
                   best_challenge_metric, best_state_dict, best_epoch, pseudo_best_epoch,
                   saved_models, ckpt_dir, best_file, histvars, phases>>

\* where train() is when a KeyboardInterrupt is raised: what the statements
\* of the current step have done by then
InterruptRaised ==
    \/ /\ tpc = "setup"
       /\ checkpoints_exists' \in
             {checkpoints_exists}
             \cup (IF /\ OptimizerSupported(train_optimizer)
                      /\ SchedulerSupported(lr_scheduler)
                      /\ LossSupported(loss)
                      THEN {TRUE} ELSE {})
       /\ UNCHANGED <<global_step, params, bestvars, saved_models, ckpt_dir, ckpt_log, lvars>>
    \/ /\ tpc \in {"loop_head", "evaluate", "final_save"}
       /\ UNCHANGED <<checkpoints_exists, global_step, params, bestvars, saved_models,
                      ckpt_dir, ckpt_log, lvars>>
    \/ /\ tpc = "train_steps"
       \* k batches done; of the next one, global_step += 1 done or not
       /\ \E k \in 0..n_batches, started \in BOOLEAN :
             /\ started => k < n_batches
             /\ global_step' = global_step + k + (IF started THEN 1 ELSE 0)
             /\ params' = params + k
       /\ UNCHANGED <<checkpoints_exists, bestvars, saved_models, ckpt_dir, ckpt_log, lvars>>
    \/ /\ tpc = "select"
       \* k of the assignments of the branch taken are done
       /\ \E k \in 0..4 :
             IF IsImprovement(eval_res, best_challenge_metric)
                THEN /\ best_challenge_metric' =
                           IF k >= 1 THEN eval_res ELSE best_challenge_metric
                     /\ best_state_dict' = IF k >= 2 THEN "live" ELSE best_state_dict
                     /\ best_epoch' = IF k >= 3 THEN epoch + 1 ELSE best_epoch
                     /\ pseudo_best_epoch' = IF k >= 4 THEN epoch + 1 ELSE pseudo_best_epoch
                ELSE /\ UNCHANGED <<best_challenge_metric, best_state_dict, best_epoch>>
                     /\ pseudo_best_epoch' =
                           IF /\ k >= 1
                              /\ early_stopping.on
                              /\ IsNearBest(eval_res, best_challenge_metric,
                                            early_stopping.min_delta)
                              THEN epoch + 1 ELSE pseudo_best_epoch
       /\ UNCHANGED <<checkpoints_exists, global_step, params, saved_models, ckpt_dir,
                      ckpt_log, lvars>>
    \/ /\ tpc = "checkpoint"
       \* nothing done; the file saved; the path queued; the oldest path taken
       \* from the queue and not yet removed
       /\ LET queue == Append(saved_models, epoch + 1)
              disk == ckpt_dir \cup {[epoch |-> epoch + 1, model_state_dict |-> params]}
          IN  \E k \in 0..3 :
                 /\ k = 3 => NeedsRotation(queue, keep_checkpoint_max)
                 /\ ckpt_dir' = IF k >= 1 THEN disk ELSE ckpt_dir
                 /\ ckpt_log' = IF k >= 1 THEN Append(ckpt_log, epoch + 1) ELSE ckpt_log
                 /\ saved_models' = CASE k <= 1 -> saved_models
                                      [] k = 2 -> queue
                                      [] OTHER -> Tail(queue)
       /\ UNCHANGED <<checkpoints_exists, global_step, params, bestvars, lvars>>
    \/ /\ tpc = "cleanup"
       \* in the loop over logger.handlers, or past it: in logging.shutdown()
       \* or before the return
       /\ IF logger
             THEN \E at \in CloseLoopPrefixes(handlers, closed, 0)
                            \cup LET end == CloseLoop(handlers, closed, 0)
                                 IN  {[end EXCEPT !.closed = cl] :
                                         cl \in ShutdownPrefixes(end.handlers, end.closed)} :
                     /\ handlers' = at.handlers
                     /\ closed' = at.closed
                     /\ it_idx' = at.it_idx
                     /\ lpc' = "closing"
                     /\ closer' = "train"
                     /\ UNCHANGED inits
             ELSE UNCHANGED lvars
       /\ UNCHANGED <<checkpoints_exists, global_step, params, bestvars, saved_models,
                      ckpt_dir, ckpt_log>>

\* where a KeyboardInterrupt that leaves train() ends: the except clause of
\* the __main__ block
\* saves the live model as INTERRUPTED.pth.tar and exits; torch.save raises
\* when the directory of the checkpoints is not there; any other caller lets
\* the exception through
InterruptCaught ==
    IF call_site = "main" /\ checkpoints_exists'
       THEN /\ interrupted_file' = <<[model_state_dict |-> params', keys |-> InterruptedKeys]>>
            /\ interrupt_saves' = interrupt_saves + 1
            /\ tpc' = "exited"
       ELSE /\ tpc' = "crashed"
            /\ UNCHANGED <<interrupted_file, interrupt_saves>>

\* a KeyboardInterrupt raised while logging.shutdown() (line 520) is in
\* Handler.acquire of one of the handlers it goes through: the `finally:
\* h.release()` of shutdown releases a lock that is not held, and the
\* RuntimeError it raises takes the place of the KeyboardInterrupt; no except
\* clause of the __main__ block catches it, nothing is saved
InterruptInShutdown ==
    /\ tpc = "cleanup"
    /\ logger
    /\ LET end == CloseLoop(handlers, closed, 0)
       IN  /\ handlers' = end.handlers
           /\ closed' \in ShutdownPrefixes(end.handlers, end.closed)
           /\ it_idx' = end.it_idx
           /\ lpc' = "closing"
           /\ closer' = "train"
           /\ UNCHANGED inits
    /\ tpc' = "crashed"
    /\ UNCHANGED <<checkpoints_exists, global_step, params, bestvars, saved_models,
                   ckpt_dir, ckpt_log, interrupted_file, interrupt_saves>>

\* a KeyboardInterrupt raised in train() outside the try of the rotation
Interrupt ==
    /\ tpc \in {"setup", "loop_head", "train_steps", "evaluate", "select", "checkpoint",
                "final_save", "cleanup"}
    /\ \/ InterruptRaised /\ InterruptCaught
       \/ InterruptInShutdown
    /\ interrupt_seen' = TRUE
    /\ UNCHANGED <<cfgvars, evars, svars, wvars, rvars, epoch, eval_res, best_file, returned,
                   epochs_evaluated, finite_metric_seen, best_saves, remove_failed, phases,
                   seenvars, params_at>>

NextTrain ==
    \/ Setup
    \/ LoopHead
    \/ TrainSteps
    \/ Evaluate
    \/ Select
    \/ Checkpoint
    \/ FinalSave
    \/ Cleanup
    \/ Interrupt

SpecTrain == InitTrain /\ [][NextTrain]_vars

NextMain ==
    \/ NextTrain

SpecMain == InitMain /\ [][NextMain]_vars

SpecSetup == InitSetup /\ [][NextMain]_vars

\* ------------------------------------------------------------------------
\* evaluate()
\* ------------------------------------------------------------------------
eframe == <<tvars, svars, wvars, rvars, lvars>>

InitEval ==
    /\ TrainIdle
    /\ SplitIdle
    /\ SiglenIdle
    /\ RunIdle
    /\ LoggerIdle
    /\ use_augmentation \in BOOLEAN
    /\ model_training \in BOOLEAN
    /\ n_val_batches \in 0..MaxValBatches
    /\ epc = "call"
    /\ prev_aug_status = FALSE
    /\ batch_idx = 0
    /\ all_labels = 0
    /\ all_scalar_preds = 0
    /\ aug_before = use_augmentation

\* entry of evaluate(): eval mode, the flag is remembered and augmentation disabled
EvalBegin ==
    /\ epc = "call"
    /\ model_training' = FALSE
    /\ prev_aug_status' = use_augmentation
    /\ use_augmentation' = FALSE
    /\ all_labels' = 0
    /\ all_scalar_preds' = 0
    /\ batch_idx' = 0
    /\ epc' = "batches"
    /\ UNCHANGED <<eframe, n_val_batches, aug_before>>

\* one iteration of `for signals, labels in data_loader`; ok is whether
\* _model.inference returns or raises
EvalBatch ==
    /\ epc = "batches"
    /\ batch_idx < n_val_batches
    /\ batch_idx' = batch_idx + 1
    /\ all_labels' = all_labels + 1
    /\ \E ok \in BOOLEAN :
          IF ok
             THEN /\ all_scalar_preds' = all_scalar_preds + 1
                  /\ epc' = "batches"
             ELSE /\ UNCHANGED all_scalar_preds
                  /\ epc' = "raised"
    /\ UNCHANGED <<eframe, use_augmentation, model_training, n_val_batches,
                   prev_aug_status, aug_before>>

\* after the loop: np.concatenate raises on an empty list, evaluate_scores
\* returns or raises (ok); then train mode and the flag are restored
EvalFinish ==
    /\ epc = "batches"
    /\ batch_idx = n_val_batches
    /\ \E ok \in BOOLEAN :
          IF all_scalar_preds > 0 /\ ok
             THEN /\ model_training' = TRUE
                  /\ use_augmentation' = IF prev_aug_status THEN TRUE ELSE use_augmentation
                  /\ epc' = "returned"
             ELSE /\ UNCHANGED <<model_training, use_augmentation>>
                  /\ epc' = "raised"
    /\ UNCHANGED <<eframe, n_val_batches, prev_aug_status, batch_idx, all_labels,
                   all_scalar_preds, aug_before>>

\* the caller calls evaluate() again on a loader over the same dataset
EvalAgain ==
    /\ epc \in {"returned", "raised"}
    /\ n_val_batches' \in 0..MaxValBatches
    /\ aug_before' = use_augmentation
    /\ epc' = "call"
    /\ UNCHANGED <<eframe, use_augmentation, model_training, prev_aug_status, batch_idx,
                   all_labels, all_scalar_preds>>

NextEval ==
    \/ EvalBegin
    \/ EvalBatch
    \/ EvalFinish
    \/ EvalAgain

SpecEval == InitEval /\ [][NextEval]_vars

\* ------------------------------------------------------------------------
\* CINC2021._train_test_split
\* ------------------------------------------------------------------------
RecsOfOtherTranches == 2

TrancheNames == <<"A", "B", "E", "F", "G">>

\* _TRANCHES, cut to the first NTranches tranches
TRANCHES == SubSeq(TrancheNames, 1, NTranches)

TrancheSet == {TRANCHES[i] : i \in 1..NTranches}

\* config.tranche_classes: tranche A knows two classes, the others one
tranche_classes == [t \in TrancheSet |-> IF t = "A" THEN {"X", "Y"} ELSE {"X"}]

\* config.train_ratio values (percent): 0 and 100 are the degenerate ones
TrainRatios == {0, 50, 80, 100}

\* the keys of tranche_classes a dataset may be restricted to; "" is None
TrancheChoices == {"", "B", "AB"}

\* what a record can be: labelled X, Y, X and Y, labelled only with a class
\* that is not scored ("U"), too short, or listed as exceptional
RecordKinds == <<"X", "Y", "XY", "U", "short", "exceptional">>

RecsOf(t) == IF t = "A" THEN MaxRecs ELSE RecsOfOtherTranches

\* reader.all_records
all_records == [t \in TrancheSet |-> [i \in 1..RecsOf(t) |-> <<t, i>>]]

AllRecordIds == UNION {{<<t, i>> : i \in 1..RecsOf(t)} : t \in TrancheSet}

\* reader.get_labels(rec, fmt="a"), with or without scored_only
get_labels(rec, scored_only) ==
    LET k == rec_kind[rec]
        raw == CASE k = "X" -> {"X"}
                 [] k = "Y" -> {"Y"}
                 [] k = "U" -> {"U"}
                 [] OTHER -> {"X", "Y"}
    IN  IF scored_only THEN raw \ {"U"} ELSE raw

\* rec in reader.exceptional_records
IsExceptional(rec) == rec_kind[rec] = "exceptional"

\* reader.load_resampled_data(rec).shape[1] < self.siglen - config.input_len_tol
IsTooShort(rec) == rec_kind[rec] = "short"

\* the filter of the enumeration loop
IsEligibleLabelled(rec, t) ==
    (get_labels(rec, TRUE) \cap tranche_classes[t]) # {}

IsEligible(rec, t) ==
    /\ ~IsExceptional(rec)
    /\ (get_labels(rec, TRUE) \cap tranche_classes[t]) # {}
    /\ ~IsTooShort(rec)

RECURSIVE SelectSeq2(_, _)
\* [rec for rec in seq if IsEligible(rec, t)], in order
SelectSeq2(seq, t) ==
    IF seq = <<>> THEN <<>>
    ELSE IF IsEligible(Head(seq), t)
            THEN <<Head(seq)>> \o SelectSeq2(Tail(seq), t)
            ELSE SelectSeq2(Tail(seq), t)

Range(seq) == {seq[i] : i \in DOMAIN seq}

RECURSIVE OrdersOf(_)
\* the sequences that list every element of a set once
OrdersOf(S) ==
    IF S = {} THEN {<<>>}
    ELSE UNION {{<<x>> \o rest : rest \in OrdersOf(S \ {x})} : x \in S}

\* the orders random.shuffle can leave a list (of distinct records) in
ShufflesInPlace(seq) == {seq}

Shuffles(seq) == OrdersOf(Range(seq))

\* int(len(tranche_records[t]) * train_ratio)
SplitIdxCeil(n, ratio) == (n * ratio + 99) \div 100

SplitIdx(n, ratio) == (n * ratio) \div 100

\* the classes of a list of records, restricted to all_classes
ClassesOf(recs, all_classes) ==
    UNION {get_labels(recs[i], FALSE) : i \in DOMAIN recs} \cap all_classes

_check_train_test_split_validityAlways(train, test, all_classes) == TRUE

_check_train_test_split_validitySidesAgree(train, test, all_classes) ==
    Cardinality(ClassesOf(train, all_classes)) = Cardinality(ClassesOf(test, all_classes))

_check_train_test_split_validityTrainOnly(train, test, all_classes) ==
    Cardinality(all_classes) = Cardinality(ClassesOf(train, all_classes))

_check_train_test_split_validity(train, test, all_classes) ==
    /\ Cardinality(all_classes) = Cardinality(ClassesOf(train, all_classes))
    /\ Cardinality(ClassesOf(train, all_classes)) = Cardinality(ClassesOf(test, all_classes))

\* json.dump of a dict of lists: the items in insertion order
JsonDump(set_by_tranche) == [i \in 1..NTranches |-> <<TRANCHES[i], set_by_tranche[TRANCHES[i]]>>]

\* json.load: the dict of the items of the document
JsonLoad(doc) ==
    [t \in {doc[i][1] : i \in DOMAIN doc} |->
        (CHOOSE i \in DOMAIN doc : doc[i][1] = t) ]

JsonLoadMap(doc) == [t \in DOMAIN JsonLoad(doc) |-> doc[JsonLoad(doc)[t]][2]]

FileKeys == {<<loc, side>> : loc \in {"db", "utils"}, side \in {"train", "test"}}

IsFile(loc, side) == files[<<loc, side>>] # <<>>

\* a file that open(..., "w") has created or emptied and that holds no
\* complete document
Truncated == <<<<>>>>

\* json.load returns for the file (it raises for a missing or truncated one)
IsDocument(f) == f # <<>> /\ f # Truncated

BothExist(loc) == IsFile(loc, "train") /\ IsFile(loc, "test")

\* the location train_file / test_file point to after the first existence test
ReadLocationPackageFirst == IF BothExist("utils") THEN "utils" ELSE "db"

ReadLocation == IF BothExist("db") THEN "db" ELSE "utils"

\* the assertion on the two percentages
RatioAcceptedNonNegative(ratio) == ratio * (100 - ratio) >= 0

RatioAccepted(ratio) == ratio * (100 - ratio) > 0

\* the branch test: recompute, or load
NeedsRecomputeAlways(force, loc) == TRUE

NeedsRecompute(force, loc) == force \/ ~BothExist(loc)

\* list(self.tranches or "ABEFG")
RequestedTranches(tranches) ==
    IF tranches = "" THEN TRANCHES
    ELSE IF tranches = "AB" THEN <<"A", "B">>
    ELSE <<tranches>>

RECURSIVE list_sum(_)
list_sum(lst) == IF lst = <<>> THEN <<>> ELSE Head(lst) \o list_sum(Tail(lst))

\* the record list built from the two maps
RecordsOfBothSides(training, tranches, trn, tst) ==
    LET req == RequestedTranches(tranches)
    IN  list_sum([i \in 1..Len(req) |-> trn[req[i]]])
            \o list_sum([i \in 1..Len(req) |-> tst[req[i]]])

RecordsOf(training, tranches, trn, tst) ==
    LET req == RequestedTranches(tranches)
        trains == [i \in 1..Len(req) |-> trn[req[i]]]
        tests == [i \in 1..Len(req) |-> tst[req[i]]]
    IN  IF training = "all" THEN list_sum(trains) \o list_sum(tests)
        ELSE IF training = "train" THEN list_sum(trains)
        ELSE list_sum(tests)

sframe == <<tvars, evars, wvars, rvars, lvars>>

sconfig == <<train_ratio, rec_kind>>

InitSplit ==
    /\ TrainIdle
    /\ EvalIdle
    /\ SiglenIdle
    /\ RunIdle
    /\ LoggerIdle
    /\ train_ratio \in TrainRatios
    \* the records of tranche A are of any kind (their names carry no meaning:
    \* the kinds are listed in order), those of the other tranches carry X and Y
    /\ \E kinds \in [1..MaxRecs -> 1..Len(RecordKinds)] :
          /\ \A i \in 1..MaxRecs - 1 : kinds[i] <= kinds[i + 1]
          /\ rec_kind = [rec \in AllRecordIds |->
                            IF rec[1] = "A" THEN RecordKinds[kinds[rec[2]]] ELSE "XY"]
    /\ files = [k \in FileKeys |-> <<>>]
    /\ spc = "idle"
    /\ force_recompute = FALSE
    /\ read_loc = "db"
    /\ tranche_records = [t \in TrancheSet |-> <<>>]
    /\ train_set = [t \in TrancheSet |-> <<>>]
    /\ test_set = [t \in TrancheSet |-> <<>>]
    /\ t_idx = 0
    /\ dataset = <<>>
    /\ loaded_from = <<>>
    /\ cache_hit = FALSE
    /\ prev_hit_dataset = <<>>

\* entry of _train_test_split: the assertion on the ratio, the choice of the
\* files to read, the branch test
SplitCall ==
    /\ spc = "idle"
    /\ \E force \in BOOLEAN :
          /\ force_recompute' = force
          /\ IF RatioAccepted(train_ratio)
                THEN /\ read_loc' = ReadLocation
                     /\ spc' = IF NeedsRecompute(force, ReadLocation)
                                  THEN "enumerate" ELSE "load"
                     /\ cache_hit' = (~force /\ (BothExist("db") \/ BothExist("utils")))
                ELSE /\ spc' = "rejected"
                     /\ UNCHANGED <<read_loc, cache_hit>>
          /\ prev_hit_dataset' =
                IF cache_hit /\ ~force /\ RatioAccepted(train_ratio)
                   THEN dataset ELSE <<>>
    /\ dataset' = <<>>
    /\ loaded_from' = <<>>
    /\ t_idx' = IF RatioAccepted(train_ratio) /\ NeedsRecompute(force_recompute', ReadLocation)
                   THEN 1 ELSE t_idx
    /\ UNCHANGED <<sframe, sconfig, files, tranche_records, train_set, test_set>>

\* one iteration of the first loop over _TRANCHES, up to its time.sleep(1):
\* the eligible records of tranche _TRANCHES[t_idx]; the first iteration
\* follows the creation of the three dicts
Enumerate ==
    /\ spc = "enumerate"
    /\ LET t == TRANCHES[t_idx]
           before == IF t_idx = 1 THEN [u \in TrancheSet |-> <<>>] ELSE tranche_records
       IN  tranche_records' = [before EXCEPT ![t] = SelectSeq2(all_records[t], t)]
    /\ train_set' = [t \in TrancheSet |-> <<>>]
    /\ test_set' = [t \in TrancheSet |-> <<>>]
    /\ IF t_idx < NTranches
          THEN /\ t_idx' = t_idx + 1
               /\ spc' = "enumerate"
          ELSE /\ t_idx' = 1
               /\ spc' = "shuffle"
    /\ UNCHANGED <<sframe, sconfig, files, force_recompute, read_loc, dataset, loaded_from,
                   cache_hit, prev_hit_dataset>>

\* one pass of `while not is_valid` for tranche _TRANCHES[t_idx]
ShuffleSplit ==
    /\ spc = "shuffle"
    /\ LET t == TRANCHES[t_idx]
       IN  \E shuffled \in Shuffles(tranche_records[t]) :
              LET split_idx == SplitIdx(Len(shuffled), train_ratio)
                  trn == SubSeq(shuffled, 1, split_idx)
                  tst == SubSeq(shuffled, split_idx + 1, Len(shuffled))
              IN  /\ tranche_records' = [tranche_records EXCEPT ![t] = shuffled]
                  /\ train_set' = [train_set EXCEPT ![t] = trn]
                  /\ test_set' = [test_set EXCEPT ![t] = tst]
                  /\ IF _check_train_test_split_validity(trn, tst, tranche_classes[t])
                        THEN IF t_idx < NTranches
                                THEN /\ t_idx' = t_idx + 1
                                     /\ spc' = "shuffle"
                                ELSE /\ t_idx' = t_idx
                                     /\ spc' = "write_train"
                        ELSE UNCHANGED <<t_idx, spc>>
    /\ UNCHANGED <<sframe, sconfig, files, force_recompute, read_loc, dataset, loaded_from,
                   cache_hit, prev_hit_dataset>>

\* json.dump(train_set) to train_file_1 and train_file_2
WriteTrain ==
    /\ spc = "write_train"
    /\ files' = [files EXCEPT ![<<"db", "train">>] = <<JsonDump(train_set)>>,
                              ![<<"utils", "train">>] = <<JsonDump(train_set)>>]
    /\ spc' = "write_test"
    /\ UNCHANGED <<sframe, sconfig, force_recompute, read_loc, tranche_records, train_set,
                   test_set, t_idx, dataset, loaded_from, cache_hit, prev_hit_dataset>>

\* json.dump(test_set) to test_file_1 and test_file_2
WriteTest ==
    /\ spc = "write_test"
    /\ files' = [files EXCEPT ![<<"db", "test">>] = <<JsonDump(test_set)>>,
                              ![<<"utils", "test">>] = <<JsonDump(test_set)>>]
    /\ spc' = "return"
    /\ UNCHANGED <<sframe, sconfig, force_recompute, read_loc, tranche_records, train_set,
                   test_set, t_idx, dataset, loaded_from, cache_hit, prev_hit_dataset>>

\* the else branch: json.load of train_file and test_file
Load ==
    /\ spc = "load"
    /\ IsDocument(files[<<read_loc, "train">>])
    /\ IsDocument(files[<<read_loc, "test">>])
    /\ train_set' = JsonLoadMap(files[<<read_loc, "train">>][1])
    /\ test_set' = JsonLoadMap(files[<<read_loc, "test">>][1])
    /\ loaded_from' = <<<<read_loc, "train">>, <<read_loc, "test">>>>
    /\ spc' = "return"
    /\ UNCHANGED <<sframe, sconfig, files, force_recompute, read_loc, tranche_records,
                   t_idx, dataset, cache_hit, prev_hit_dataset>>

\* the record list of the requested tranches and side is returned and becomes
\* self.records; self.training and self.tranches, set by __init__ before the
\* call, are read only here; the locals of the call are gone
Return ==
    /\ spc = "return"
    /\ \E training \in {"train", "test", "all"}, tranches \in TrancheChoices :
          dataset' = <<[training |-> training, tranches |-> tranches,
                        records |-> RecordsOf(training, tranches, train_set, test_set)]>>
    /\ tranche_records' = [t \in TrancheSet |-> <<>>]
    /\ train_set' = [t \in TrancheSet |-> <<>>]
    /\ test_set' = [t \in TrancheSet |-> <<>>]
    /\ t_idx' = 0
    /\ spc' = "idle"
    /\ UNCHANGED <<sframe, sconfig, files, force_recompute, read_loc, loaded_from,
                   cache_hit, prev_hit_dataset>>

\* between two calls the test file of the data-directory copy is not there
\* any more (what os.path.isfile then reports): the data-directory pair is
\* incomplete, the package-adjacent copy stays
DataDirFileMissing ==
    /\ spc = "idle"
    /\ IsFile("db", "test")
    /\ files' = [files EXCEPT ![<<"db", "test">>] = <<>>]
    /\ UNCHANGED <<sframe, sconfig, spc, force_recompute, read_loc, tranche_records,
                   train_set, test_set, t_idx, dataset, loaded_from, cache_hit,
                   prev_hit_dataset>>

NextSplit ==
    \/ SplitCall
    \/ DataDirFileMissing
    \/ Enumerate
    \/ ShuffleSplit
    \/ WriteTrain
    \/ WriteTest
    \/ Load
    \/ Return

SpecSplit == InitSplit /\ [][NextSplit]_vars

\* the pass of `while not is_valid` that ends the loop of a tranche: shuffle
\* has left the list in an order that splits validly
ShuffleToValid ==
    /\ ShuffleSplit
    /\ <<t_idx, spc>>' # <<t_idx, spc>>

\* the call that finds no cache file
FirstSplitCall ==
    /\ \A k \in FileKeys : files[k] = <<>>
    /\ SplitCall

NextSplitFair ==
    \/ FirstSplitCall
    \/ Enumerate
    \/ ShuffleSplit
    \/ WriteTrain
    \/ WriteTest
    \/ Return

\* a call, once entered, runs on (the statements of the recompute are
\* executed one after the other), and random.shuffle leaves the
\* list in every order again and again: while an order that splits validly
\* exists, a pass that produces one happens
FairSplit ==
    /\ WF_vars(Enumerate)
    /\ WF_vars(WriteTrain)
    /\ WF_vars(WriteTest)
    /\ WF_vars(Return)
    /\ WF_vars(ShuffleToValid)

\* one recompute on an empty cache, under fair shuffling
SpecSplitFair == InitSplit /\ [][NextSplitFair]_vars /\ FairSplit

\* what a crash or an I/O error inside
\* `with open(file_1, "w") as f1, open(file_2, "w") as f2: dump; dump`
\* can leave in the two files: nothing done, the first opened, both opened,
\* the first dumped and the second not, the second closed (the with
\* statement closes f2 before f1) with the first still empty, both complete
WriteOutcomes(old1, old2, new) ==
    {<<old1, old2>>, <<Truncated, old2>>, <<Truncated, Truncated>>,
     <<new, Truncated>>, <<Truncated, new>>, <<new, new>>}

\* the process dies, or an OSError is raised, in the block of the train files
\* or in the block of the test files; the call does not return
CrashInWrites ==
    /\ spc \in {"write_train", "write_test"}
    /\ LET side == IF spc = "write_train" THEN "train" ELSE "test"
           new == IF spc = "write_train" THEN <<JsonDump(train_set)>>
                                         ELSE <<JsonDump(test_set)>>
       IN  \E o \in WriteOutcomes(files[<<"db", side>>], files[<<"utils", side>>], new) :
              files' = [files EXCEPT ![<<"db", side>>] = o[1],
                                     ![<<"utils", side>>] = o[2]]
    /\ tranche_records' = [t \in TrancheSet |-> <<>>]
    /\ train_set' = [t \in TrancheSet |-> <<>>]
    /\ test_set' = [t \in TrancheSet |-> <<>>]
    /\ t_idx' = 0
    /\ spc' = "idle"
    /\ UNCHANGED <<sframe, sconfig, force_recompute, read_loc, dataset, loaded_from,
                   cache_hit, prev_hit_dataset>>

\* the else branch when one of the two files holds no complete document:
\* json.load raises
LoadRaises ==
    /\ spc = "load"
    /\ ~(IsDocument(files[<<read_loc, "train">>]) /\ IsDocument(files[<<read_loc, "test">>]))
    /\ spc' = "load_raised"
    /\ UNCHANGED <<sframe, sconfig, files, force_recompute, read_loc, tranche_records,
                   train_set, test_set, t_idx, dataset, loaded_from, cache_hit,
                   prev_hit_dataset>>

NextSplitCrash ==
    \/ NextSplit
    \/ CrashInWrites
    \/ LoadRaises

\* the split calls of a process that can die inside the writes
SpecSplitCrash == InitSplit /\ [][NextSplitCrash]_vars

\* ------------------------------------------------------------------------
\* ensure_siglen
\* ------------------------------------------------------------------------
\* the values a sample takes
Samples == 0..MaxSample

\* the numbers of leads of the signals
LeadCounts == {1, 2}

\* the accepted spellings of fmt, after fmt.lower()
Formats == {"lead_first", "channel_first", "lead_last", "channel_last"}

IsLeadLast(f) == f \in {"channel_last", "lead_last"}

\* ndarray.T of a matrix with at least one row
Transpose(m) == [j \in 1..Len(m[1]) |-> [i \in 1..Len(m) |-> m[i][j]]]

\* one row of np.zeros((n_leads, n))
Zeros(n) == [i \in 1..n |-> 0]

\* start of the slice taken from a signal that is long enough
CropStartCeil(original_siglen, target) == (original_siglen - target + 1) \div 2

CropStart(original_siglen, target) == (original_siglen - target) \div 2

\* number of zeros put in front of a signal that is too short
PadLeftCeil(pad_len) == pad_len - pad_len \div 2

PadLeft(pad_len) == pad_len \div 2

ensure_siglen(vals, target, f) ==
    LET _values == IF IsLeadLast(f) THEN Transpose(vals) ELSE vals
        original_siglen == Len(_values[1])
        n_leads == Len(_values)
        start == CropStart(original_siglen, target)
        end == start + target
        pad_len == target - original_siglen
        pad_left == PadLeft(pad_len)
        pad_right == pad_len - pad_left
        out == IF original_siglen >= target
                  THEN [ld \in 1..n_leads |-> SubSeq(_values[ld], start + 1, end)]
                  ELSE [ld \in 1..n_leads |->
                           Zeros(pad_left) \o _values[ld] \o Zeros(pad_right)]
    IN  IF IsLeadLast(f) THEN Transpose(out) ELSE out

wframe == <<tvars, evars, svars, rvars, lvars>>

\* a signal of one or two leads and 1..MaxSigLen samples, handed over in the
\* layout fmt names, and a target length
InitSiglen ==
    /\ TrainIdle
    /\ EvalIdle
    /\ SplitIdle
    /\ RunIdle
    /\ LoggerIdle
    /\ fmt \in Formats
    /\ siglen \in 1..MaxSigLen + 1
    /\ \E n_leads \in LeadCounts, len \in 1..MaxSigLen :
          \E m \in [1..n_leads -> [1..len -> Samples]] :
             values = IF IsLeadLast(fmt) THEN Transpose(m) ELSE m
    /\ out_values = <<>>
    /\ wpc = "call"

\* the call: the result is returned, the argument is left as it was
EnsureSiglen ==
    /\ wpc = "call"
    /\ out_values' = ensure_siglen(values, siglen, fmt)
    /\ wpc' = "returned"
    /\ UNCHANGED <<wframe, values, siglen, fmt>>

NextSiglen == EnsureSiglen

SpecSiglen == InitSiglen /\ [][NextSiglen]_vars

\* ------------------------------------------------------------------------
\* run_model
\* ------------------------------------------------------------------------
\* the fields of the conclusion of special_detectors
ConclusionNames == {"is_brady", "is_tachy", "is_LAD", "is_RAD", "is_PR", "is_LQRSV"}

\* _ModelCfg.dl_classes, two of them
DlClasses == <<"NSR", "AF">>

\* the classes the special detectors decide
SpecialClasses == <<"Brady", "LAD", "RAD", "PR", "LQRSV">>

\* _ModelCfg.full_classes
FullClasses(special) == IF special THEN SpecialClasses \o DlClasses ELSE DlClasses

\* list.index
IndexOf(seq, x) == CHOOSE i \in DOMAIN seq : seq[i] = x

\* the field of the conclusion a special class is read from
FieldOf(c) ==
    CASE c = "Brady" -> "is_brady"
      [] c = "LAD" -> "is_LAD"
      [] c = "RAD" -> "is_RAD"
      [] c = "PR" -> "is_PR"
      [] c = "LQRSV" -> "is_LQRSV"

\* attribute access on the conclusion: an EasyDict has its keys as
\* attributes, a dict has not
HasAttributes(type) == type = "EasyDict"

\* tmp: the vector over full_classes holding int(is_...) at the special classes
ConclusionVector(fields, classes) ==
    [i \in 1..Len(classes) |->
        IF classes[i] \in Range(SpecialClasses)
           THEN (IF fields[FieldOf(classes[i])] THEN 1 ELSE 0)
           ELSE 0]

\* extend_predictions on a vector: zeros, and the predictions at the places
\* of their classes
extend_predictions(preds, classes, extended_classes) ==
    [i \in 1..Len(extended_classes) |->
        IF extended_classes[i] \in Range(classes)
           THEN preds[IndexOf(classes, extended_classes[i])]
           ELSE 0]

\* np.max(vectors, axis=0) of a list of one or two vectors of the same length
MaxOver(vectors) ==
    [i \in 1..Len(vectors[1]) |->
        CHOOSE m \in {vectors[k][i] : k \in DOMAIN vectors} :
            \A k \in DOMAIN vectors : vectors[k][i] <= m]

rframe == <<tvars, evars, svars, wvars, lvars>>

InitRun ==
    /\ TrainIdle
    /\ EvalIdle
    /\ SplitIdle
    /\ SiglenIdle
    /\ LoggerIdle
    /\ special_classes \in BOOLEAN
    /\ rpc = "call"
    /\ partial_conclusion = <<>>
    /\ final_conclusions = <<>>
    /\ final_scores = <<>>
    /\ run_result = <<>>
    /\ detector_raised = FALSE

\* preprocess_data, the spike removal, the two empty lists
RunBegin ==
    /\ rpc = "call"
    /\ final_conclusions' = <<>>
    /\ final_scores' = <<>>
    /\ rpc' = IF special_classes THEN "detect" ELSE "dl"
    /\ UNCHANGED <<rframe, special_classes, partial_conclusion, run_result, detector_raised>>

\* the try: special_detectors returns its conclusion, or raises and the
\* except clause builds the all-false dict
RunDetect ==
    /\ rpc = "detect"
    /\ \/ /\ \E c \in [ConclusionNames -> BOOLEAN] :
                partial_conclusion' = <<[type |-> "EasyDict", fields |-> c]>>
          /\ UNCHANGED detector_raised
       \/ /\ partial_conclusion' =
                <<[type |-> "dict", fields |-> [n \in ConclusionNames |-> FALSE]]>>
          /\ detector_raised' = TRUE
    /\ rpc' = "read"
    /\ UNCHANGED <<rframe, special_classes, final_conclusions, final_scores, run_result>>

\* is_brady = partial_conclusion.is_brady, ...; the vector tmp is appended to
\* both lists
RunReadConclusion ==
    /\ rpc = "read"
    /\ IF HasAttributes(partial_conclusion[1].type)
          THEN LET tmp == ConclusionVector(partial_conclusion[1].fields,
                                           FullClasses(special_classes))
               IN  /\ final_scores' = Append(final_scores, tmp)
                   /\ final_conclusions' = Append(final_conclusions, tmp)
                   /\ rpc' = "dl"
          ELSE /\ rpc' = "raised"
               /\ UNCHANGED <<final_scores, final_conclusions>>
    /\ UNCHANGED <<rframe, special_classes, partial_conclusion, run_result, detector_raised>>

\* the values a score of model.inference takes here: 0.0 and 1.0
ScoreLevels == {0, 1}

\* dl_scores, dl_conclusions = model.inference(...): two vectors over
\* dl_classes from the model, each extended to full_classes when there are
\* special classes; the scores go to final_scores, the conclusions to
\* final_conclusions, and each list is reduced by its own maximum
RunInference ==
    /\ rpc = "dl"
    /\ \E dl_scores \in [1..Len(DlClasses) -> ScoreLevels],
          dl_conclusions \in [1..Len(DlClasses) -> {0, 1}] :
          LET scores == IF special_classes
                           THEN extend_predictions(dl_scores, DlClasses,
                                                   FullClasses(special_classes))
                           ELSE dl_scores
              conclusions == IF special_classes
                                THEN extend_predictions(dl_conclusions, DlClasses,
                                                        FullClasses(special_classes))
                                ELSE dl_conclusions
          IN  /\ final_scores' = Append(final_scores, scores)
              /\ final_conclusions' = Append(final_conclusions, conclusions)
              /\ run_result' = <<[labels |-> MaxOver(Append(final_conclusions, conclusions)),
                                  probabilities |-> MaxOver(Append(final_scores, scores))]>>
    /\ rpc' = "returned"
    /\ UNCHANGED <<rframe, special_classes, partial_conclusion, detector_raised>>

NextRun ==
    \/ RunBegin
    \/ RunDetect
    \/ RunReadConclusion
    \/ RunInference

SpecRun == InitRun /\ [][NextRun]_vars

\* ------------------------------------------------------------------------
\* the logger: init_logger, and the loop that closes and removes the handlers
\* ------------------------------------------------------------------------
\* the largest handler id in use, 0 if there is none
LastId(seq, done) ==
    LET ids == {seq[i] : i \in DOMAIN seq} \cup done \cup {0}
    IN  CHOOSE m \in ids : \A x \in ids : x <= m

lframe == <<tvars, evars, svars, wvars, rvars>>

\* logging.getLogger("CinC2021") with some handlers attached beforehand
InitLogger ==
    /\ TrainIdle
    /\ EvalIdle
    /\ SplitIdle
    /\ SiglenIdle
    /\ RunIdle
    /\ \E n \in 0..MaxHandlers : handlers = [i \in 1..n |-> i]
    /\ closed = {}
    /\ lpc = "ready"
    /\ it_idx = 0
    /\ closer = "train"
    /\ inits = 0

\* init_logger: the same named logger gets a stream handler and a file handler
init_logger ==
    /\ lpc \in {"ready", "shut"}
    /\ inits < MaxInits
    /\ LET id == LastId(handlers, closed)
       IN  handlers' = handlers \o <<id + 1, id + 2>>
    /\ inits' = inits + 1
    /\ lpc' = "ready"
    /\ UNCHANGED <<lframe, closed, it_idx, closer>>

\* `for h in logger.handlers:` starts, at the end of train() or in
\* TxtLogger.close
CloseBegin ==
    /\ lpc = "ready"
    /\ closer' \in {"train", "TxtLogger.close"}
    /\ it_idx' = 0
    /\ lpc' = "closing"
    /\ UNCHANGED <<lframe, handlers, closed, inits>>

\* one pass of the loop body: the iterator yields the element at its index
\* of the list as it is now, the handler is closed and removed from that list
CloseStep ==
    /\ lpc = "closing"
    /\ it_idx < Len(handlers)
    /\ LET h == handlers[it_idx + 1]
       IN  /\ closed' = closed \cup {h}
           /\ handlers' = RemoveFirst(handlers, h)
    /\ it_idx' = it_idx + 1
    /\ UNCHANGED <<lframe, lpc, closer, inits>>

\* the iterator is exhausted; logging.shutdown() closes the handlers left
CloseEnd ==
    /\ lpc = "closing"
    /\ it_idx >= Len(handlers)
    /\ closed' = closed \cup SeqRange(handlers)
    /\ lpc' = "shut"
    /\ UNCHANGED <<lframe, handlers, it_idx, closer, inits>>

NextLogger ==
    \/ init_logger
    \/ CloseBegin
    \/ CloseStep
    \/ CloseEnd

SpecLogger == InitLogger /\ [][NextLogger]_vars

\* ------------------------------------------------------------------------
\* Properties of the logger
\* ------------------------------------------------------------------------
\* C30: after the loop that closes the handlers, run at the end of train()
\* or by TxtLogger.close, the logger has no handler left, however many it
\* had.
C30_NoHandlerLeft ==
    lpc = "shut" => handlers = <<>>

\* ------------------------------------------------------------------------
\* Properties of run_model
\* ------------------------------------------------------------------------
\* C19: when the special detector has raised, run_model does not raise: it
\* goes on to the deep-learning inference, and the labels it returns hold 0
\* at every class the detector decides.
C19_DetectorFailureIsNeutral ==
    detector_raised
        => /\ rpc \in {"read", "dl", "returned"}
           /\ rpc = "returned"
                 => \A i \in 1..Len(SpecialClasses) : run_result[1].labels[i] = 0

\* ------------------------------------------------------------------------
\* Properties of ensure_siglen
\* ------------------------------------------------------------------------
\* a matrix as leads x samples
LeadsOf(m, f) == IF IsLeadLast(f) THEN Transpose(m) ELSE m

\* C11: for a signal at least as long as the target, every lead of the
\* result has exactly target samples, sample k of the result is sample
\* (len - target) // 2 + k of the input, and when len equals the target the
\* result is the input.
C11_CropIsCentralSlice ==
    (wpc = "returned" /\ Len(LeadsOf(values, fmt)[1]) >= siglen)
        => LET in == LeadsOf(values, fmt)
               out == LeadsOf(out_values, fmt)
               len == Len(in[1])
           IN  /\ Len(out) = Len(in)
               /\ \A ld \in 1..Len(in) :
                     /\ Len(out[ld]) = siglen
                     /\ \A k \in 0..siglen - 1 :
                           out[ld][k + 1] = in[ld][(len - siglen) \div 2 + k + 1]
               /\ (len = siglen => out_values = values)

C11_Witness ==
    /\ wpc = "returned"
    /\ Len(LeadsOf(values, fmt)) = 2
    /\ Len(LeadsOf(values, fmt)[1]) = siglen + 2
    /\ IsLeadLast(fmt)
    /\ \E k \in 1..siglen + 1 : LeadsOf(values, fmt)[1][k] # LeadsOf(values, fmt)[1][k + 1]

\* C12: for a signal shorter than the target by d > 0 samples, every lead of
\* the result has exactly target samples: floor(d/2) zeros, the samples of
\* the input in order, ceil(d/2) zeros.
C12_PadIsSymmetric ==
    (wpc = "returned" /\ Len(LeadsOf(values, fmt)[1]) < siglen)
        => LET in == LeadsOf(values, fmt)
               out == LeadsOf(out_values, fmt)
               len == Len(in[1])
               d == siglen - len
           IN  /\ Len(out) = Len(in)
               /\ \A ld \in 1..Len(in) :
                     /\ Len(out[ld]) = siglen
                     /\ \A k \in 1..siglen :
                           out[ld][k] =
                              IF k <= d \div 2 THEN 0
                              ELSE IF k <= d \div 2 + len THEN in[ld][k - d \div 2]
                              ELSE 0

C12_Witness ==
    /\ wpc = "returned"
    /\ Len(LeadsOf(values, fmt)) = 2
    /\ siglen - Len(LeadsOf(values, fmt)[1]) = 3
    /\ \A ld \in 1..2 : \A k \in 1..Len(LeadsOf(values, fmt)[1]) :
          LeadsOf(values, fmt)[ld][k] # 0

\* ------------------------------------------------------------------------
\* Properties of train()
\* ------------------------------------------------------------------------
EpochsOnDisk == {f.epoch : f \in ckpt_dir}

LastWritten(k) == {ckpt_log[i] : i \in (Len(ckpt_log) - k + 1)..Len(ckpt_log)}

\* train() has not been ended by an exception
Running == tpc \notin {"crashed", "exited"}

\* C3: with keep_checkpoint_max = K > 0, once more than K epoch checkpoints
\* have been written in a run, exactly K checkpoint files are on disk and
\* they are the K most recently written.
C3_RotationBound ==
    (/\ keep_checkpoint_max > 0
     /\ Len(ckpt_log) > keep_checkpoint_max)
        => /\ Cardinality(ckpt_dir) = keep_checkpoint_max
           /\ EpochsOnDisk = LastWritten(keep_checkpoint_max)

\* C4: the best-model file is never written while train() is in the epoch
\* loop; when train() has left the loop and finished, it has been written
\* exactly once if some epoch's metric exceeded -infinity, and not at all
\* otherwise.
C4_BestSavedOnceAfterLoop ==
    /\ tpc \in {"setup", "loop_head", "train_steps", "evaluate", "select", "checkpoint",
                "final_save"}
          => best_saves = 0 /\ best_file = <<>>
    /\ tpc \in {"cleanup", "done"} =>
          best_saves = IF finite_metric_seen THEN 1 ELSE 0
    /\ best_saves <= 1
    /\ best_saves = 0 <=> best_file = <<>>

C4_Witness ==
    /\ tpc = "done"
    /\ best_saves = 1
    /\ epochs_evaluated < n_epochs

\* C5: the parameters stored in the best-model file, and those returned by
\* train(), are the parameters the model had at the end of epoch best_epoch.
C5_BestFileHoldsBestEpochParams ==
    (tpc = "done" /\ best_file # <<>>)
        => /\ best_file[1].model_state_dict = params_at[best_epoch]
           /\ returned = params_at[best_epoch]

\* C6: with early stopping configured, the loop is left early at an epoch
\* e = epoch + 1 exactly when the metric does not exceed the best, is below
\* best - min_delta, and e - pseudo_best_epoch >= patience.
C6_EarlyStopExactlyAtPatience ==
    [][(tpc = "select" /\ early_stopping.on /\ Running')
          => ((tpc' = "final_save")
                <=> /\ ~(eval_res > best_challenge_metric)
                    /\ eval_res < best_challenge_metric - early_stopping.min_delta
                    /\ (epoch + 1) - pseudo_best_epoch >= early_stopping.patience)]_vars

\* C7: at an epoch whose metric does not exceed the best but is
\* >= best - min_delta (min_delta is a field of config.early_stopping, so
\* early stopping is configured), the pseudo-best marker becomes the current
\* epoch, the best metric, the best epoch and the best snapshot stay as they
\* are, and the loop goes on to the checkpoint instead of stopping.
C7_NearBestAdvancesMarker ==
    [][(/\ tpc = "select"
        /\ Running'
        /\ early_stopping.on
        /\ ~(eval_res > best_challenge_metric)
        /\ eval_res >= best_challenge_metric - early_stopping.min_delta)
          => /\ pseudo_best_epoch' = epoch + 1
             /\ best_challenge_metric' = best_challenge_metric
             /\ best_epoch' = best_epoch
             /\ best_state_dict' = best_state_dict
             /\ params' = params
             /\ tpc' = "checkpoint"]_vars

C7_Witness ==
    /\ tpc = "checkpoint"
    /\ early_stopping.on
    /\ ~(eval_res > best_challenge_metric)
    /\ pseudo_best_epoch = epoch + 1
    /\ best_epoch < epoch + 1

\* C8: the tracked best challenge metric never decreases during a run.
C8_BestMetricNonDecreasing ==
    [][best_challenge_metric' >= best_challenge_metric]_vars

C8_Witness ==
    /\ tpc = "checkpoint"
    /\ epochs_evaluated >= 3
    /\ eval_res < best_challenge_metric
    /\ best_epoch > 1

\* C9: every epoch whose training steps and evaluation were executed has
\* exactly one checkpoint tagged with its number, the epoch at which early
\* stopping triggers included.
C9_OneCheckpointPerEvaluatedEpoch ==
    tpc \in {"loop_head", "final_save", "cleanup", "done"}
        => \A e \in 1..epochs_evaluated :
              Cardinality({i \in DOMAIN ckpt_log : ckpt_log[i] = e}) = 1

\* C17: with an optimizer, scheduler or loss name that is not supported,
\* train() ends with NotImplementedError (or has not left its setup): no
\* training step and no evaluation has run, no checkpoint and no best-model
\* file is written.
C17_UnsupportedNameFailsFast ==
    (\/ train_optimizer \notin {"adam", "Adam", "adamw", "adamw_amsgrad", "sgd"}
     \/ lr_scheduler \notin {"", "plateau", "Plateau", "step", "one_cycle", "onecycle"}
     \/ loss \notin {"BCEWithLogitsLoss", "BCEWithLogitsWithClassWeightLoss"})
        => /\ tpc \in {"setup", "not_implemented", "exited", "crashed"}
           /\ global_step = 0
           /\ params = 0
           /\ epochs_evaluated = 0
           /\ ckpt_log = <<>>
           /\ ckpt_dir = {}
           /\ best_file = <<>>
           /\ returned = NoParams

C17_Witness ==
    /\ tpc = "not_implemented"
    /\ train_optimizer = "Adam"
    /\ lr_scheduler = "Plateau"
    /\ loss = "bcewithlogitsloss"
    /\ n_epochs = 1
    /\ n_batches = 1

\* C18: once an interrupt has arrived during train(), the process has been
\* ended by the call-site with exactly one INTERRUPTED.pth.tar written, which
\* holds model_state_dict, model_config and train_config and no
\* optimizer_state_dict.
C18_InterruptSavesOnce ==
    interrupt_seen
        => /\ tpc = "exited"
           /\ interrupt_saves = 1
           /\ interrupted_file # <<>>
           /\ interrupted_file[1].keys = InterruptedKeys
           /\ "optimizer_state_dict" \notin interrupted_file[1].keys

\* C20: a failed removal in the rotation does not end train(): with or
\* without a logger the run goes on to the next epoch.
C20_FailedRemoveNotFatal ==
    (remove_failed /\ ~interrupt_seen) => tpc # "crashed"

\* phase a comes before phase b wherever the current epoch has had both
Before(a, b) ==
    \A i, j \in DOMAIN phases : (phases[i] = a /\ phases[j] = b) => i < j

\* C21: the phases of an epoch come in the order training steps, evaluation,
\* scheduler step, checkpoint write, early-stop check; the early-stop check
\* of an epoch is made only when the checkpoint of the epoch is written.
C21_PhaseOrder ==
    /\ Before("train", "evaluate")
    /\ Before("evaluate", "scheduler")
    /\ Before("scheduler", "checkpoint")
    /\ Before("checkpoint", "early_stop")
    /\ (\E i \in DOMAIN phases : phases[i] = "early_stop")
          => \E j \in DOMAIN phases : phases[j] = "checkpoint"

\* C29: when the process has ended on an interrupt that came after some
\* epoch had improved the best metric, a best-model file for the best epoch
\* exists next to the interrupt checkpoint.
C29_BestPersistedOnInterrupt ==
    (tpc = "exited" /\ best_challenge_metric > NegInf)
        => /\ interrupted_file # <<>>
           /\ best_file # <<>>
           /\ best_file[1].epoch = best_epoch

\* C22: after the selection of every epoch the tracked best metric is the
\* largest challenge metric seen so far and best_epoch is the first epoch
\* that attained it (an epoch that only equals the best replaces nothing).
C22_BestIsMaxAtEarliestEpoch ==
    tpc \in {"loop_head", "checkpoint", "final_save", "cleanup", "done"}
        => /\ best_challenge_metric = max_seen
           /\ best_epoch = first_max_epoch
           /\ (best_epoch = -1 <=> best_state_dict = "empty")

C22_Witness ==
    /\ tpc = "checkpoint"
    /\ epochs_evaluated >= 3
    /\ eval_res = best_challenge_metric
    /\ best_epoch = 1
    /\ eval_res > 0

\* C23: with keep_checkpoint_max 0 or negative no epoch checkpoint is ever
\* deleted: every checkpoint written is on disk.
C23_NoRotationWithoutLimit ==
    keep_checkpoint_max <= 0
        => /\ EpochsOnDisk = {ckpt_log[i] : i \in DOMAIN ckpt_log}
           /\ Cardinality(ckpt_dir) = Len(ckpt_log)
           /\ ~remove_failed

C23_Witness ==
    /\ keep_checkpoint_max <= 0
    /\ Len(ckpt_log) = MaxEpochs
    /\ Cardinality(ckpt_dir) = MaxEpochs

\* ------------------------------------------------------------------------
\* Properties of evaluate()
\* ------------------------------------------------------------------------
\* C10: when evaluate() has been left, by return or by an exception raised in
\* the batch loop or in the metric computation, the use_augmentation flag of
\* the loader's dataset is what it was when evaluate() was called.
C10_AugmentationRestored ==
    epc \in {"returned", "raised"} => use_augmentation = aug_before

\* ------------------------------------------------------------------------
\* Properties of _train_test_split
\* ------------------------------------------------------------------------
\* every class of the vocabulary of tranche t is carried by some record of recs
Covers(recs, t) ==
    \A c \in tranche_classes[t] : \E i \in DOMAIN recs : c \in get_labels(recs[i], FALSE)

\* C1: the train list and the test list of every tranche cover the whole
\* vocabulary of the tranche, in every map a recompute holds once its loops
\* are done, in every map that has been written to a cache file, and in the
\* maps a call returns its record list from.
C1_SplitCoverage ==
    /\ \A k \in FileKeys :
          files[k] # <<>> =>
             \A i \in DOMAIN files[k][1] : Covers(files[k][1][i][2], files[k][1][i][1])
    /\ spc \in {"write_train", "write_test", "return"} =>
          \A t \in TrancheSet : Covers(train_set[t], t) /\ Covers(test_set[t], t)

C1_Witness ==
    /\ spc = "return"
    /\ ~cache_hit
    /\ \A k \in FileKeys : files[k] # <<>>
    /\ \E i \in DOMAIN tranche_records["A"] : rec_kind[tranche_records["A"][i]] = "X"
    /\ Len(tranche_records["A"]) = MaxRecs

\* C2: a call that finds both cache files and is not forced goes to the load
\* branch: it enumerates nothing, shuffles nothing and leaves the four files
\* as they are; and it returns the record list the preceding such call
\* returned.
C2_CacheHitDeterminism ==
    [][/\ (cache_hit' /\ spc' # "idle")
            => /\ spc' \in {"load", "return"}
               /\ files' = files
               /\ tranche_records' = tranche_records
       /\ (spc = "return" /\ cache_hit)
            => /\ files' = files
               /\ (/\ prev_hit_dataset # <<>>
                   /\ dataset'[1].training = prev_hit_dataset[1].training
                   /\ dataset'[1].tranches = prev_hit_dataset[1].tranches)
                     => dataset'[1].records = prev_hit_dataset[1].records]_vars

C2_Witness ==
    /\ spc = "idle"
    /\ cache_hit
    /\ dataset # <<>>
    /\ prev_hit_dataset # <<>>
    /\ dataset[1].training = prev_hit_dataset[1].training
    /\ dataset[1].tranches = prev_hit_dataset[1].tranches
    /\ Len(dataset[1].records) > 1

\* C13: a call with train_ratio 0 or 1 is rejected at once: no record is
\* enumerated, no cache file is read or written, no record list is returned.
C13_DegenerateRatioRejected ==
    train_ratio \in {0, 100}
        => /\ spc \in {"idle", "rejected"}
           /\ \A k \in FileKeys : files[k] = <<>>
           /\ loaded_from = <<>>
           /\ dataset = <<>>
           /\ \A t \in TrancheSet :
                 tranche_records[t] = <<>> /\ train_set[t] = <<>> /\ test_set[t] = <<>>

C13_Witness ==
    /\ spc = "rejected"
    /\ train_ratio = 100
    /\ force_recompute

\* round(n * ratio / 100), halves to the even neighbour
RoundOf(n, ratio) ==
    LET q == (n * ratio) \div 100
        r == (n * ratio) % 100
    IN  IF 2 * r < 100 THEN q
        ELSE IF 2 * r > 100 THEN q + 1
        ELSE IF q % 2 = 0 THEN q ELSE q + 1

\* the train side of tranche t is the first k records of the shuffled list,
\* the test side the rest
SplitAt(t, k) ==
    /\ train_set[t] = SubSeq(tranche_records[t], 1, k)
    /\ test_set[t] = SubSeq(tranche_records[t], k + 1, Len(tranche_records[t]))

\* C14 (as claimed): in a recomputed split the train side of a tranche with
\* N eligible records is the first round(train_ratio * N) records of the
\* shuffled list and the test side the remaining ones.
C14_TrainSideIsRounded ==
    (spc \in {"write_train", "write_test", "return"} /\ ~cache_hit)
        => \A t \in TrancheSet : SplitAt(t, RoundOf(Len(tranche_records[t]), train_ratio))

\* C14 (as amended): in a recomputed split the train side of a tranche with
\* N eligible records is the first int(train_ratio * N) records of the
\* shuffled list (the product truncated), the test side the remaining
\* N - int(train_ratio * N).
C14_TrainSideIsTruncated ==
    (spc \in {"write_train", "write_test", "return"} /\ ~cache_hit)
        => \A t \in TrancheSet :
              /\ SplitAt(t, (Len(tranche_records[t]) * train_ratio) \div 100)
              /\ Len(train_set[t]) = (Len(tranche_records[t]) * train_ratio) \div 100
              /\ Len(test_set[t]) = Len(tranche_records[t]) - Len(train_set[t])

C14_Witness ==
    /\ spc = "return"
    /\ ~cache_hit
    /\ train_ratio = 50
    /\ Len(tranche_records["A"]) = 3
    /\ Len(train_set["A"]) = 1
    /\ Len(test_set["A"]) = 2

\* C15: a call that loads reads the train map and the test map from the
\* data-directory copy when both of its files exist, and otherwise both from
\* the package-adjacent copy.
C15_ReadLocationPreference ==
    (spc = "return" /\ cache_hit)
        => loaded_from = IF BothExist("db")
                            THEN <<<<"db", "train">>, <<"db", "test">>>>
                            ELSE <<<<"utils", "train">>, <<"utils", "test">>>>

C15_Witness ==
    /\ spc = "return"
    /\ cache_hit
    /\ IsFile("db", "train")
    /\ ~IsFile("db", "test")
    /\ loaded_from = <<<<"utils", "train">>, <<"utils", "test">>>>

\* C16: a recompute writes only when the split of every tranche is valid
\* (both sides cover the vocabulary of the tranche), and when it has written,
\* the two copies of the train map are the same document, the two copies of
\* the test map are the same document, and they are the maps the call
\* returns its record list from.
C16_RedundantCopiesAgree ==
    /\ spc \in {"write_train", "write_test"}
          => \A t \in TrancheSet : Covers(train_set[t], t) /\ Covers(test_set[t], t)
    /\ (spc = "return" /\ ~cache_hit)
          => /\ files[<<"db", "train">>] = files[<<"utils", "train">>]
             /\ files[<<"db", "test">>] = files[<<"utils", "test">>]
             /\ files[<<"db", "train">>] # <<>>
             /\ files[<<"db", "test">>] # <<>>
             /\ JsonLoadMap(files[<<"db", "train">>][1]) = train_set
             /\ JsonLoadMap(files[<<"db", "test">>][1]) = test_set

C16_Witness ==
    /\ spc = "return"
    /\ force_recompute
    /\ prev_hit_dataset = <<>>
    /\ files[<<"db", "train">>] = <<JsonDump(train_set)>>
    /\ \E t \in TrancheSet : Len(train_set[t]) >= 2

\* the tranches a dataset configured with tranches_for_training = tr asks for
Wanted(tr) == IF tr = "" THEN TrancheSet ELSE IF tr = "AB" THEN {"A", "B"} ELSE {tr}

RECURSIVE ConcatWanted(_, _, _)
\* the lists of map m for the tranches of W, one after the other in the
\* order of ts
ConcatWanted(ts, m, W) ==
    IF ts = <<>> THEN <<>>
    ELSE (IF Head(ts) \in W THEN m[Head(ts)] ELSE <<>>) \o ConcatWanted(Tail(ts), m, W)

\* C24: the record list a call returns is the concatenation over exactly the
\* requested tranches of the train lists (train side), of the test lists
\* (test side), or of the train lists followed by the test lists ("all"); it
\* holds no record of a tranche that was not requested and none of the other
\* side.
C24_ReturnedListIsRequestedPart ==
    [][spc = "return" =>
          LET d == dataset'[1]
              W == Wanted(d.tranches)
              trn == ConcatWanted(TrancheNames, [t \in TrancheSet |-> train_set[t]], W \cap TrancheSet)
              tst == ConcatWanted(TrancheNames, [t \in TrancheSet |-> test_set[t]], W \cap TrancheSet)
          IN  /\ d.records = CASE d.training = "train" -> trn
                                [] d.training = "test" -> tst
                                [] OTHER -> trn \o tst
              /\ \A i \in DOMAIN d.records : d.records[i][1] \in W
              /\ d.training = "train" =>
                    \A t \in TrancheSet : Range(d.records) \cap Range(test_set[t]) = {}
              /\ d.training = "test" =>
                    \A t \in TrancheSet : Range(d.records) \cap Range(train_set[t]) = {}]_vars

C24_Witness ==
    /\ spc = "idle"
    /\ dataset # <<>>
    /\ dataset[1].training = "test"
    /\ dataset[1].tranches = "B"
    /\ Len(dataset[1].records) >= 1
    /\ files[<<"utils", "train">>] # <<>>
    /\ Len(JsonLoadMap(files[<<"utils", "train">>][1])["A"]) >= 1
    /\ Len(JsonLoadMap(files[<<"utils", "test">>][1])["A"]) >= 1

\* the records of tranche t that pass the filter of the enumeration
EligibleSet(t) ==
    {rec \in Range(all_records[t]) :
        /\ rec_kind[rec] \notin {"exceptional", "short"}
        /\ (get_labels(rec, TRUE) \cap tranche_classes[t]) # {}}

\* C25: when some tranche has no eligible record, a recompute stays in the
\* reshuffle-and-check loop, at that tranche at the latest: the call never
\* gets to the writes or to the return, so no cache file is written and no
\* record list is returned.
C25_EmptyTrancheNeverConverges ==
    (\E t \in TrancheSet : EligibleSet(t) = {})
        => /\ spc \in {"idle", "rejected", "enumerate", "shuffle"}
           /\ \A k \in FileKeys : files[k] = <<>>
           /\ dataset = <<>>
           /\ loaded_from = <<>>
           /\ spc = "shuffle" => \A i \in 1..t_idx - 1 : EligibleSet(TRANCHES[i]) # {}

C25_Witness ==
    /\ spc = "shuffle"
    /\ RatioAccepted(train_ratio)
    /\ force_recompute
    /\ EligibleSet("A") = {}
    /\ tranche_records["A"] = <<>>
    /\ t_idx = 1
    /\ \E rec \in Range(all_records["A"]) : rec_kind[rec] = "U"
    /\ \E rec \in Range(all_records["A"]) : rec_kind[rec] = "short"

\* no record occurs twice in seq
NoDuplicate(seq) == \A i, j \in DOMAIN seq : seq[i] = seq[j] => i = j

\* trn and tst split the eligible records of tranche t
IsPartitionOfEligible(trn, tst, t) ==
    /\ NoDuplicate(trn \o tst)
    /\ Range(trn) \cap Range(tst) = {}
    /\ Range(trn) \cup Range(tst) = EligibleSet(t)

\* C26: in a recompute, the train list and the test list of every tranche
\* whose loop is done are disjoint, without duplicates, and together hold
\* exactly the eligible records of the tranche; so do the lists of the maps
\* the recompute writes and returns from.
C26_SplitIsPartition ==
    /\ spc = "shuffle" =>
          \A i \in 1..t_idx - 1 :
             IsPartitionOfEligible(train_set[TRANCHES[i]], test_set[TRANCHES[i]], TRANCHES[i])
    /\ (spc \in {"write_train", "write_test", "return"} /\ ~cache_hit) =>
          \A t \in TrancheSet : IsPartitionOfEligible(train_set[t], test_set[t], t)
    /\ (spc = "return" /\ ~cache_hit) =>
          \A t \in TrancheSet :
             IsPartitionOfEligible(JsonLoadMap(files[<<"db", "train">>][1])[t],
                                   JsonLoadMap(files[<<"utils", "test">>][1])[t], t)

C26_Witness ==
    /\ spc = "return"
    /\ ~cache_hit
    /\ Cardinality(EligibleSet("A")) = 2
    /\ \E rec \in Range(all_records["A"]) : rec_kind[rec] = "short"
    /\ Len(train_set["A"]) = 1
    /\ Len(test_set["A"]) = 1
    /\ Len(train_set["B"]) = 1

\* C27: also when a recompute was interrupted inside its file writes, the
\* train map and the test map a later cache-hit call loads are those of one
\* computation: for every tranche their record lists are disjoint.
C27_LoadedMapsFromOneComputation ==
    (spc = "return" /\ cache_hit)
        => \A t \in TrancheSet : Range(train_set[t]) \cap Range(test_set[t]) = {}

\* some order of the eligible records of tranche t gives a valid split at the
\* configured ratio
HasValidOrdering(t) ==
    \E o \in OrdersOf(EligibleSet(t)) :
       LET k == (Len(o) * train_ratio) \div 100
       IN  /\ Covers(SubSeq(o, 1, k), t)
           /\ Covers(SubSeq(o, k + 1, Len(o)), t)

\* C28: when every tranche has an order of its eligible records that splits
\* validly, then under fair shuffling a recompute that has started gets out
\* of the retry loop of every tranche, writes the four cache files and
\* returns its record list.
C28_RecomputeTerminates ==
    (spc = "enumerate" /\ \A t \in TrancheSet : HasValidOrdering(t))
        ~> (/\ spc = "idle"
            /\ dataset # <<>>
            /\ ~cache_hit
            /\ \A k \in FileKeys : IsDocument(files[k]))

\* a recompute that needed the record labelled X and Y on the train side
C28_Witness ==
    /\ spc = "idle"
    /\ dataset # <<>>
    /\ ~cache_hit
    /\ train_ratio = 50
    /\ {rec_kind[rec] : rec \in Range(all_records["A"])} = {"X", "Y", "XY"}
    /\ \A k \in FileKeys : IsDocument(files[k])
    /\ Len(JsonLoadMap(files[<<"db", "train">>][1])["A"]) = 1

====
